---- MODULE Spec2Model ----
(***************************************************************************)
(* A model of tasks.py, the piper-rt release pipeline: discovery of voices *)
(* in the upstream file listing, delta resolution against the published    *)
(* metadata.json, the per-voice export/package transform and the final     *)
(* metadata publication.                                                   *)
(*                                                                         *)
(* Text is modelled as a sequence of tokens.  The separators "/", "-", "." *)
(* and "+" are tokens of their own; every other token is a non-empty piece *)
(* of text that contains no separator.  So <<"en", "-", "amy">> is the     *)
(* Python string "en-amy", and <<>> is the empty string.                   *)
(***************************************************************************)
EXTENDS Integers, Sequences, FiniteSets, TLC

VARIABLES
    pc,              \* position of run(): the phase, or the step of the per-voice transform
    fatal,           \* the call whose uncaught exception ended run(), or "none"
    piper_present,   \* Path.cwd()/piper is a directory
    all_files,       \* upstream: what list_repo_files returns (path strings)
    files,           \* run(): files, the PurePosixPath of each listed path
    cfg_i,           \* run(): position of the discovery loop in config_files
    voices,          \* run(): voices
    updated_voices,  \* run(): updated_voices
    vi,              \* run(): position of the export loop in updated_voices
    response,        \* the last answer of the destination to GET metadata.json
    calls,           \* the calls of get_updated_voices so far: the answer and the result
    dest,            \* the destination repository: metadata.json, voices.json, archives
    working_dir,     \* the files of the working directory
    attempted,       \* the voices passed to export_and_package so far, in order
    failed,          \* the positions in updated_voices whose export_and_package raised
    written_config,  \* the last derived config written by export_and_package
    config_in,       \* the upstream config document that written_config was made from
    catalog,         \* upstream: rhasspy/piper-voices voices.json as fetched
    config_docs,     \* upstream: the config documents the checkpoint repository serves
    run,             \* how many times run() was started
    etag_of          \* upstream: the <<checkpoint, etag>> pairs served so far

vars == <<pc, fatal, piper_present, all_files, files, cfg_i, voices, updated_voices,
          vi, response, calls, dest, working_dir, attempted, failed, written_config,
          config_in, catalog, config_docs, run, etag_of>>

----------------------------------------------------------------------------
(* Bounds of the model *)

MaxFiles == 4
MaxDiscovered == 2
MaxPublished == 2
MaxFields == 2
MaxGroupings == 2

----------------------------------------------------------------------------
(* Text *)

RECURSIVE SplitFrom(_, _, _, _)
SplitFrom(s, sep, i, acc) ==
    IF i > Len(s) THEN acc
    ELSE IF s[i] = sep
         THEN SplitFrom(s, sep, i + 1, Append(acc, <<>>))
         ELSE SplitFrom(s, sep, i + 1,
                        [acc EXCEPT ![Len(acc)] = Append(acc[Len(acc)], s[i])])

\* str.split(sep): always at least one part; "a--b" gives "a", "", "b"
Split(s, sep) == SplitFrom(s, sep, 1, << <<>> >>)

RECURSIVE Join(_, _)
\* sep.join(parts)
Join(parts, sep) ==
    IF Len(parts) = 0 THEN <<>>
    ELSE IF Len(parts) = 1 THEN parts[1]
    ELSE parts[1] \o <<sep>> \o Join(Tail(parts), sep)

\* seq[1:]
Rest(seq) == IF Len(seq) = 0 THEN <<>> ELSE Tail(seq)

\* str.rfind("."), as a position from 1; 0 when there is none
RECURSIVE RFindDot(_, _)
RFindDot(s, i) ==
    IF i = 0 THEN 0
    ELSE IF s[i] = "." THEN i
    ELSE RFindDot(s, i - 1)

----------------------------------------------------------------------------
(* pathlib.PurePosixPath: a path is the sequence of its parts *)

\* PurePosixPath(path) of a relative path: empty and "." segments are dropped
PurePosixPath(path) ==
    SelectSeq(Split(path, "/"), LAMBDA seg : seg # <<>> /\ seg # <<".">>)

\* .name
PathName(p) == IF Len(p) = 0 THEN <<>> ELSE p[Len(p)]

\* .parent (the parent of "." is ".")
PathParent(p) == IF Len(p) = 0 THEN p ELSE SubSeq(p, 1, Len(p) - 1)

\* .suffix: from the last dot of the name, unless that dot is first or last
PathSuffix(p) ==
    LET name == PathName(p)
        i == RFindDot(name, Len(name))
    IN  IF 1 < i /\ i < Len(name) THEN SubSeq(name, i, Len(name)) ELSE <<>>

\* os.fspath(p)
FsPath(p) == IF Len(p) = 0 THEN <<".">> ELSE Join(p, "/")

----------------------------------------------------------------------------
(* Voice discovery, run() lines 171-199 *)

Voice(name, config, checkpoint, etag) ==
    [name |-> name, config |-> config, checkpoint |-> checkpoint, etag |-> etag]

IsConfigFile(f) == PathName(f) = <<"config", ".", "json">>

\* config_files = filter(lambda f: f.name == 'config.json', files)
ConfigFiles(fs) == SelectSeq(fs, IsConfigFile)

VoiceName_AllParts(cfg_file) == Join(PathParent(cfg_file), "-")

\* voice_name = "-".join(cfg_file.parent.parts[1:])
VoiceName(cfg_file) == Join(Rest(PathParent(cfg_file)), "-")

IsCheckpoint_AnyDir(f, cfg_file) == PathSuffix(f) = <<".", "ckpt">>

\* lambda f: (f.parent == cfg_file.parent) and f.suffix == ".ckpt"
IsCheckpoint(f, cfg_file) ==
    PathParent(f) = PathParent(cfg_file) /\ PathSuffix(f) = <<".", "ckpt">>

\* filter(..., files), the candidates in listing order
CheckpointCandidates(fs, cfg_file) ==
    SelectSeq(fs, LAMBDA f : IsCheckpoint(f, cfg_file))

\* next(filter(...)) raises StopIteration when there is no candidate
HasCheckpoint(fs, cfg_file) == Len(CheckpointCandidates(fs, cfg_file)) > 0

CheckpointFile_Last(fs, cfg_file) ==
    CheckpointCandidates(fs, cfg_file)[Len(CheckpointCandidates(fs, cfg_file))]

CheckpointFile(fs, cfg_file) == CheckpointCandidates(fs, cfg_file)[1]

----------------------------------------------------------------------------
(* JSON values and documents.  A document (a dict) is the sequence of its    *)
(* <<key, value>> pairs in insertion order, with no key twice.               *)

JStr(s) == [type |-> "string", val |-> s]
JNum(n) == [type |-> "number", val |-> <<n>>]
JTrue == [type |-> "bool", val |-> <<"true">>]
JFalse == [type |-> "bool", val |-> <<"false">>]
\* a list of one string
JList1(s) == [type |-> "list", val |-> s]

HasKey(doc, k) == \E i \in 1..Len(doc) : doc[i][1] = k

GetKey(doc, k) == doc[CHOOSE i \in 1..Len(doc) : doc[i][1] = k][2]

SetKey_MoveToEnd(doc, k, v) ==
    Append(SelectSeq(doc, LAMBDA kv : kv[1] # k), <<k, v>>)

\* doc[k] = v: an existing key keeps its place, a new key goes last
SetKey(doc, k, v) ==
    IF HasKey(doc, k)
    THEN [i \in 1..Len(doc) |-> IF doc[i][1] = k THEN <<k, v>> ELSE doc[i]]
    ELSE Append(doc, <<k, v>>)

----------------------------------------------------------------------------
(* get_updated_voices, lines 31-50 *)

SameTriple_WithName(p, v) ==
    p.name = v.name /\ p.config = v.config /\ p.checkpoint = v.checkpoint
        /\ p.etag = v.etag

\* (p.config == v.config) and (p.checkpoint == v.checkpoint) and (p.etag == v.etag)
SameTriple(p, v) ==
    p.config = v.config /\ p.checkpoint = v.checkpoint /\ p.etag = v.etag

\* already_processed = any([... for p in processed_voices])
AlreadyProcessed(processed_voices, v) ==
    \E j \in 1..Len(processed_voices) : SameTriple(processed_voices[j], v)

RECURSIVE FilterNew(_, _, _, _)
\* the loop of lines 41-49
FilterNew(vs, processed_voices, i, retval) ==
    IF i > Len(vs) THEN retval
    ELSE IF AlreadyProcessed(processed_voices, vs[i])
         THEN FilterNew(vs, processed_voices, i + 1, retval)
         ELSE FilterNew(vs, processed_voices, i + 1, Append(retval, vs[i]))

Return(v) == [kind |-> "return", value |-> v]
Raise(e) == [kind |-> e, value |-> <<>>]
Raised(r) == r.kind # "return"

\* Response.raise_for_status(): raises HTTPError for 4xx and 5xx
RaisesForStatus(status) == 400 <= status /\ status < 600

IsAbsent_Or404(status) == status = 401 \/ status = 404

\* metadata_response.status_code == 401
IsAbsent(status) == status = 401

\* the result of get_updated_voices(vs) when the destination answers resp
GetUpdatedVoices(vs, resp) ==
    IF IsAbsent(resp.status) THEN Return(vs)
    ELSE IF RaisesForStatus(resp.status) THEN Raise("HTTPError")
    ELSE IF ~resp.body.json THEN Raise("JSONDecodeError")
    ELSE Return(FilterNew(vs, resp.body.voices, 1, <<>>))

----------------------------------------------------------------------------
(* export_and_package, lines 53-103: the derived name and config *)

\* voice_name_parts[0..2] exist (otherwise line 77-79 raises IndexError)
HasThreeParts(name) == Len(Split(name, "-")) >= 3

\* new_name = "-".join([parts[0], f"{parts[1]}+RT", parts[2]])
NewName(name) ==
    LET parts == Split(name, "-")
    IN  Join(<<parts[1], parts[2] \o <<"+", "RT">>, parts[3]>>, "-")

\* config_json["streaming"] = True; config_json["key"] = new_name
DerivedConfig(doc, name) ==
    SetKey(SetKey(doc, "streaming", JTrue), "key", JStr(NewName(name)))

\* f"{new_name}.json", f"{new_name}.tar.gz"
ConfigFileName(name) == NewName(name) \o <<".", "json">>

PackageFileName_Base(name) == name \o <<".", "tar", ".", "gz">>

PackageFileName(name) == NewName(name) \o <<".", "tar", ".", "gz">>

\* a file of the export subdirectory: its name and the voice (config path) it was made for
ExportedFile(name, owner) == [name |-> name, of |-> owner]

\* writing a file replaces a file of the same name
WriteFile(dir, file) == {f \in dir : f.name # file.name} \cup {file}

\* the output of piper_train.export_onnx_streaming in export_dir
OnnxOutput(owner) ==
    {ExportedFile(<<"encoder", ".", "onnx">>, owner),
     ExportedFile(<<"decoder", ".", "onnx">>, owner)}

RECURSIVE WriteFiles(_, _)
WriteFiles(dir, new) ==
    IF new = {} THEN dir
    ELSE LET f == CHOOSE x \in new : TRUE
         IN  WriteFiles(WriteFile(dir, f), new \ {f})

EmptyDir ==
    [checkpoint |-> <<>>, exported_dir |-> FALSE, exported |-> {}, packages |-> {},
     documents |-> {}]

----------------------------------------------------------------------------
(* dump_voices_metadata, lines 106-148: the derived catalog *)

RECURSIVE BuildRtVoices(_, _, _, _)
\* the loop of lines 126-139 over piper_voices.items()
BuildRtVoices(piper_voices, std_voice_names, i, rt_voices) ==
    IF i > Len(piper_voices) THEN Return(rt_voices)
    ELSE LET vname == piper_voices[i][1]
             vdata == piper_voices[i][2]
         IN  IF vname \notin std_voice_names
             THEN BuildRtVoices(piper_voices, std_voice_names, i + 1, rt_voices)
             ELSE IF Len(Split(vname, "-")) # 3 THEN Raise("ValueError")
             ELSE IF ~HasKey(vdata, "key") THEN Raise("KeyError")
             ELSE LET new_name == NewName(vname)
                      d1 == SetKey(vdata, "base", GetKey(vdata, "key"))
                      d2 == SetKey(d1, "key", JStr(new_name))
                      d3 == SetKey(d2, "streaming", JTrue)
                      d4 == SetKey(d3, "files", JList1(PackageFileName(vname)))
                  IN  BuildRtVoices(piper_voices, std_voice_names, i + 1,
                                    SetKey(rt_voices, new_name, d4))

\* std_voice_names = frozenset([v["name"] for v in processed_voices])
StdVoiceNames(vs) == {vs[i].name : i \in 1..Len(vs)}

----------------------------------------------------------------------------
(* The environment: what the upstream and the destination can hold or answer *)

Etags == {<<"e1">>, <<"e2">>}

InDir(dir, name) == IF dir = <<>> THEN name ELSE dir \o <<"/">> \o name

DirAmy == <<"col", "/", "en", "/", "amy", "/", "medium">>
DirBob == <<"col", "/", "en", "/", "bob", "/", "low">>
DirShort == <<"col", "/", "en">>
DirDash == <<"col", "/", "en", "-", "us", "/", "amy", "/", "medium">>

ConfigJson == <<"config", ".", "json">>
Ckpt(stem) == stem \o <<".", "ckpt">>

\* the paths a listing of the discovery model is drawn from
PathUniverse ==
    {InDir(DirAmy, ConfigJson), InDir(DirAmy, Ckpt(<<"model">>)),
     InDir(DirAmy, Ckpt(<<"last">>)),
     InDir(DirBob, ConfigJson), InDir(DirBob, Ckpt(<<"epoch=1", "-", "step=2">>)),
     InDir(DirBob, <<".", "ckpt">>),
     InDir(DirShort, ConfigJson), InDir(DirShort, Ckpt(<<"x">>)),
     InDir(DirDash, ConfigJson), InDir(DirDash, <<"x", ".", "ckpt", ".", "bak">>)}

\* the sequences without repetition of at most n elements of S
RECURSIVE SeqsNoDup(_, _)
SeqsNoDup(S, n) ==
    IF n = 0 THEN {<<>>}
    ELSE LET shorter == SeqsNoDup(S, n - 1)
             longest == {y \in shorter \X S :
                            /\ Len(y[1]) = n - 1
                            /\ \A i \in 1..Len(y[1]) : y[1][i] # y[2]}
         IN  shorter \cup {Append(y[1], y[2]) : y \in longest}

\* the sequences of at most n elements of S, in the order of the sequence all
RECURSIVE SubSeqs(_, _)
SubSeqs(all, n) ==
    IF Len(all) = 0 THEN {<<>>}
    ELSE LET rest == SubSeqs(Tail(all), n)
         IN  rest \cup {<<all[1]>> \o q : q \in {r \in rest : Len(r) < n}}

RECURSIVE Concat(_)
Concat(seqs) == IF Len(seqs) = 0 THEN <<>> ELSE seqs[1] \o Concat(Tail(seqs))

Grouping(dir, stem) == <<InDir(dir, ConfigJson), InDir(dir, Ckpt(stem))>>

DirAmy2 == <<"old", "/", "en", "/", "amy", "/", "medium">>

\* the groupings a listing of the pipeline model is made of
PipelineGroupings ==
    <<Grouping(DirAmy, <<"model">>), Grouping(DirShort, <<"x">>),
      Grouping(DirBob, <<"last">>), Grouping(DirAmy2, <<"model">>),
      <<InDir(DirDash, ConfigJson)>>>>

PipelineListings == {Concat(g) : g \in SubSeqs(PipelineGroupings, MaxGroupings)}

NoIndex == [present |-> FALSE, voices |-> <<>>]
Index(vs) == [present |-> TRUE, voices |-> vs]

AmyPublished ==
    Voice(<<"en", "-", "amy", "-", "medium">>, InDir(DirAmy, ConfigJson),
          InDir(DirAmy, Ckpt(<<"model">>)), <<"e1">>)

PipelineIndexes == {NoIndex, Index(<<>>), Index(<<AmyPublished>>)}

Body(vs) == [json |-> TRUE, voices |-> vs]
NoBody == [json |-> FALSE, voices |-> <<>>]
NoResponse == [status |-> 0, body |-> NoBody]

\* the statuses the destination answers with no metadata.json in the body
ErrorStatuses == {304, 401, 404, 500}

\* the answers of the destination to GET metadata.json
DestResponses(d) ==
    (IF d.metadata.present
     THEN {[status |-> 200, body |-> Body(d.metadata.voices)]}
     ELSE {})
    \cup {[status |-> s, body |-> NoBody] : s \in ErrorStatuses}

\* the fields an upstream config document is made of
ConfigFields ==
    {<<"key", JStr(<<"en", "-", "amy", "-", "medium">>)>>, <<"other", JNum("1")>>,
     <<"streaming", JFalse>>, <<"audio", JStr(<<"q">>)>>}

DistinctKeys(doc) == \A i, j \in 1..Len(doc) : i # j => doc[i][1] # doc[j][1]

ConfigDocs == {d \in SeqsNoDup(ConfigFields, MaxFields) : DistinctKeys(d)}

\* the documents the pipeline model is served
PipelineConfigDocs ==
    {<<>>, <<<<"key", JStr(<<"en", "-", "amy", "-", "medium">>)>>, <<"other", JNum("1")>>>>}

CatalogEntry(vname, key) ==
    <<vname, <<<<"key", JStr(key)>>, <<"files", JList1(<<"x">>)>>>>>>

NameAmy == <<"en", "-", "amy", "-", "medium">>
NameBob == <<"en", "-", "bob", "-", "low">>

\* what rhasspy/piper-voices voices.json can hold
Catalogs ==
    {<<>>, <<CatalogEntry(NameAmy, NameAmy)>>,
     <<CatalogEntry(NameBob, NameBob), CatalogEntry(NameAmy, NameAmy)>>,
     <<CatalogEntry(<<"en">>, <<"en">>)>>,
     <<CatalogEntry(NameAmy, <<"amy">>)>>,
     <<<<NameAmy, <<<<"files", JList1(<<"x">>)>>>>>>>>}

----------------------------------------------------------------------------
(* run(), lines 152-212 *)

discoveryVars == <<files, cfg_i, voices>>
deltaVars == <<updated_voices, response, calls>>
loopVars == <<vi, attempted, failed>>
transformVars == <<working_dir, written_config, config_in>>

NotWritten == [written |-> FALSE, doc |-> <<>>]
Written(doc) == [written |-> TRUE, doc |-> doc]

\* get_hf_file_metadata(url).etag: the checkpoint repository does not change
\* while the model runs, a checkpoint served once keeps its etag
ServedEtags(ckpt) ==
    IF \E p \in etag_of : p[1] = ckpt
    THEN {p[2] : p \in {q \in etag_of : q[1] = ckpt}}
    ELSE Etags

\* an exception that nothing catches ends run(); site is the call that raised it
Abort(site) == pc' = "aborted" /\ fatal' = site

\* lines 156-166: clone and install the toolchain unless ./piper is there
Bootstrap ==
    /\ pc = "bootstrap"
    /\ piper_present' = TRUE
    /\ pc' = "listing"
    /\ UNCHANGED <<fatal, all_files, discoveryVars, deltaVars, loopVars,
                   transformVars, dest, catalog, config_docs, run, etag_of>>

\* a c.run of lines 158-166 exits non-zero; the clone may or may not be there
BootstrapFails ==
    /\ pc = "bootstrap"
    /\ ~piper_present
    /\ piper_present' \in BOOLEAN
    /\ Abort("bootstrap")
    /\ UNCHANGED <<all_files, discoveryVars, deltaVars, loopVars, transformVars,
                   dest, catalog, config_docs, run, etag_of>>

\* lines 171-175
ListRepoFiles ==
    /\ pc = "listing"
    /\ files' = [i \in 1..Len(all_files) |-> PurePosixPath(all_files[i])]
    /\ cfg_i' = 1
    /\ voices' = <<>>
    /\ pc' = "discovering"
    /\ UNCHANGED <<fatal, piper_present, all_files, deltaVars, loopVars,
                   transformVars, dest, catalog, config_docs, run, etag_of>>

ListRepoFilesFails ==
    /\ pc = "listing"
    /\ Abort("list_repo_files")
    /\ UNCHANGED <<piper_present, all_files, discoveryVars, deltaVars, loopVars,
                   transformVars, dest, catalog, config_docs, run, etag_of>>

CfgFile == ConfigFiles(files)[cfg_i]

InDiscoveryLoop == pc = "discovering" /\ cfg_i <= Len(ConfigFiles(files))

\* lines 188-189: StopIteration is caught, the grouping is skipped
DiscoverSkip ==
    /\ InDiscoveryLoop
    /\ ~HasCheckpoint(files, CfgFile)
    /\ cfg_i' = cfg_i + 1
    /\ UNCHANGED <<pc, fatal, piper_present, all_files, files, voices, deltaVars,
                   loopVars, transformVars, dest, catalog, config_docs, run, etag_of>>

\* lines 190-199: the etag is fetched and the Voice appended
DiscoverVoice ==
    /\ InDiscoveryLoop
    /\ HasCheckpoint(files, CfgFile)
    /\ \E etag \in ServedEtags(FsPath(CheckpointFile(files, CfgFile))) :
          /\ voices' = Append(voices,
                              Voice(VoiceName(CfgFile), FsPath(CfgFile),
                                    FsPath(CheckpointFile(files, CfgFile)), etag))
          /\ etag_of' = etag_of \cup {<<FsPath(CheckpointFile(files, CfgFile)), etag>>}
    /\ cfg_i' = cfg_i + 1
    /\ UNCHANGED <<pc, fatal, piper_present, all_files, files, deltaVars, loopVars,
                   transformVars, dest, catalog, config_docs, run>>

\* get_hf_file_metadata raises
DiscoverFails ==
    /\ InDiscoveryLoop
    /\ HasCheckpoint(files, CfgFile)
    /\ Abort("get_hf_file_metadata")
    /\ UNCHANGED <<piper_present, all_files, discoveryVars, deltaVars, loopVars,
                   transformVars, dest, catalog, config_docs, run, etag_of>>

DiscoverDone ==
    /\ pc = "discovering"
    /\ cfg_i > Len(ConfigFiles(files))
    /\ pc' = "resolving"
    /\ UNCHANGED <<fatal, piper_present, all_files, discoveryVars, deltaVars,
                   loopVars, transformVars, dest, catalog, config_docs, run, etag_of>>

GetUpdatedVoicesCall_InPlace(resp) ==
    /\ response' = resp
    /\ calls' = Append(calls, [response |-> resp,
                                result |-> GetUpdatedVoices(voices, resp)])
    /\ voices' = IF Raised(GetUpdatedVoices(voices, resp)) THEN voices
                 ELSE GetUpdatedVoices(voices, resp).value
    /\ UNCHANGED dest

\* a call of get_updated_voices(voices) that the destination answers with resp
GetUpdatedVoicesCall(resp) ==
    /\ response' = resp
    /\ calls' = Append(calls, [response |-> resp,
                                result |-> GetUpdatedVoices(voices, resp)])
    /\ UNCHANGED <<voices, dest>>

ResolveDelta_Swallow ==
    /\ pc = "resolving"
    /\ \E resp \in DestResponses(dest) :
          /\ GetUpdatedVoicesCall(resp)
          /\ LET r == GetUpdatedVoices(voices, resp)
             IN  updated_voices' = IF Raised(r) THEN voices ELSE r.value
    /\ vi' = 1
    /\ pc' = "loop"
    /\ UNCHANGED <<fatal, piper_present, all_files, files, cfg_i, attempted, failed,
                   transformVars, catalog, config_docs, run, etag_of>>

\* line 200
ResolveDelta ==
    /\ pc = "resolving"
    /\ \E resp \in DestResponses(dest) :
          /\ GetUpdatedVoicesCall(resp)
          /\ LET r == GetUpdatedVoices(voices, resp)
             IN  IF Raised(r)
                 THEN Abort("get_updated_voices") /\ UNCHANGED <<updated_voices, vi>>
                 ELSE /\ updated_voices' = r.value
                      /\ vi' = 1
                      /\ pc' = "loop"
                      /\ fatal' = fatal
    /\ UNCHANGED <<piper_present, all_files, files, cfg_i, attempted, failed,
                   transformVars, catalog, config_docs, run, etag_of>>

----------------------------------------------------------------------------
(* The export loop, lines 203-209, and export_and_package step by step *)

CurrentVoice == updated_voices[vi]

TransformSteps == {"download", "export", "config", "package", "upload", "cleanup"}

ExceptBreak ==
    /\ failed' = failed \cup {vi}
    /\ vi' = vi
    /\ pc' = "dump"
    /\ written_config' = NotWritten
    /\ config_in' = <<>>
    /\ UNCHANGED <<fatal, attempted>>

\* lines 207-209: except: log the error; continue
ExceptContinue ==
    /\ failed' = failed \cup {vi}
    /\ vi' = vi + 1
    /\ pc' = "loop"
    /\ written_config' = NotWritten
    /\ config_in' = <<>>
    /\ UNCHANGED <<fatal, attempted>>

\* lines 203-206 and 54-55: the next voice is passed to export_and_package,
\* which makes the export subdirectory
BeginVoice ==
    /\ pc = "loop"
    /\ vi <= Len(updated_voices)
    /\ attempted' = Append(attempted, CurrentVoice)
    /\ working_dir' = [working_dir EXCEPT !.exported_dir = TRUE]
    /\ pc' = "download"
    /\ UNCHANGED <<fatal, piper_present, all_files, discoveryVars, deltaVars, vi,
                   failed, written_config, config_in, dest, catalog, config_docs, run, etag_of>>

\* lines 56-61
Download ==
    /\ pc = "download"
    /\ working_dir' = [working_dir EXCEPT !.checkpoint = CurrentVoice.checkpoint]
    /\ pc' = "export"
    /\ UNCHANGED <<fatal, piper_present, all_files, discoveryVars, deltaVars,
                   loopVars, written_config, config_in, dest, catalog, config_docs, run, etag_of>>

Export_IgnoreExit ==
    /\ pc = "export"
    /\ \/ working_dir' =
             [working_dir EXCEPT
                 !.exported = WriteFiles(@, OnnxOutput(CurrentVoice.config))]
       \/ working_dir' = working_dir
    /\ pc' = "config"
    /\ UNCHANGED <<fatal, piper_present, all_files, discoveryVars, deltaVars,
                   loopVars, written_config, config_in, dest, catalog, config_docs, run, etag_of>>

\* lines 62-69
Export ==
    /\ pc = "export"
    /\ working_dir' =
          [working_dir EXCEPT
              !.exported = WriteFiles(@, OnnxOutput(CurrentVoice.config))]
    /\ pc' = "config"
    /\ UNCHANGED <<fatal, piper_present, all_files, discoveryVars, deltaVars,
                   loopVars, written_config, config_in, dest, catalog, config_docs, run, etag_of>>

\* lines 72-86
RewriteConfig ==
    /\ pc = "config"
    /\ HasThreeParts(CurrentVoice.name)
    /\ \E doc \in config_docs :
          /\ config_in' = doc
          /\ written_config' = Written(DerivedConfig(doc, CurrentVoice.name))
    /\ working_dir' =
          [working_dir EXCEPT
              !.exported = WriteFile(@, ExportedFile(ConfigFileName(CurrentVoice.name),
                                                     CurrentVoice.config))]
    /\ pc' = "package"
    /\ UNCHANGED <<fatal, piper_present, all_files, discoveryVars, deltaVars,
                   loopVars, dest, catalog, config_docs, run, etag_of>>

\* lines 75-80: voice_name_parts[1] or [2] raises IndexError
RewriteConfigIndexError ==
    /\ pc = "config"
    /\ ~HasThreeParts(CurrentVoice.name)
    /\ ExceptContinue
    /\ UNCHANGED <<piper_present, all_files, discoveryVars, deltaVars, working_dir,
                   dest, catalog, config_docs, run, etag_of>>

Package(voice, members) ==
    [name |-> PackageFileName(voice.name), of |-> voice.config, members |-> members]

\* lines 87-91
BuildPackage ==
    /\ pc = "package"
    /\ working_dir' =
          [working_dir EXCEPT
              !.packages = WriteFile(@, Package(CurrentVoice, working_dir.exported))]
    /\ pc' = "upload"
    /\ UNCHANGED <<fatal, piper_present, all_files, discoveryVars, deltaVars,
                   loopVars, written_config, config_in, dest, catalog, config_docs, run, etag_of>>

\* lines 93-99
UploadPackage ==
    /\ pc = "upload"
    /\ dest' = [dest EXCEPT
                   !.archives = WriteFile(@, Package(CurrentVoice, working_dir.exported))]
    /\ pc' = "cleanup"
    /\ UNCHANGED <<fatal, piper_present, all_files, discoveryVars, deltaVars,
                   loopVars, transformVars, catalog, config_docs, run, etag_of>>

\* lines 101-103, and the return to the loop
Cleanup ==
    /\ pc = "cleanup"
    /\ working_dir' = EmptyDir
    /\ written_config' = NotWritten
    /\ config_in' = <<>>
    /\ vi' = vi + 1
    /\ pc' = "loop"
    /\ UNCHANGED <<fatal, piper_present, all_files, discoveryVars, deltaVars,
                   attempted, failed, dest, catalog, config_docs, run, etag_of>>

\* a request, the export tool, the archive, the upload or rm raises
StepRaises ==
    /\ pc \in TransformSteps
    /\ ExceptContinue
    /\ UNCHANGED <<piper_present, all_files, discoveryVars, deltaVars, working_dir,
                   dest, catalog, config_docs, run, etag_of>>

EndLoop_Early ==
    /\ pc = "loop"
    /\ pc' = "dump"
    /\ UNCHANGED <<fatal, piper_present, all_files, discoveryVars, deltaVars,
                   loopVars, transformVars, dest, catalog, config_docs, run, etag_of>>

\* the loop of lines 203-209 is over
EndLoop ==
    /\ pc = "loop"
    /\ vi > Len(updated_voices)
    /\ pc' = "dump"
    /\ UNCHANGED <<fatal, piper_present, all_files, discoveryVars, deltaVars,
                   loopVars, transformVars, dest, catalog, config_docs, run, etag_of>>

----------------------------------------------------------------------------
(* dump_voices_metadata, lines 106-148, called at line 211 *)

Document(name) == [name |-> name, of |-> <<>>]

DumpMetadata_Succeeded ==
    /\ pc = "dump"
    /\ working_dir' =
          [working_dir EXCEPT
              !.documents = WriteFile(@, Document(<<"metadata", ".", "json">>))]
    /\ dest' = [dest EXCEPT
                  !.metadata =
                      Index(SelectSeq(voices,
                                      LAMBDA v : \A i \in failed :
                                                    updated_voices[i].config # v.config))]
    /\ pc' = "catalog"
    /\ UNCHANGED <<fatal, piper_present, all_files, discoveryVars, deltaVars,
                   loopVars, written_config, config_in, catalog, config_docs, run, etag_of>>

DumpMetadata_Delta ==
    /\ pc = "dump"
    /\ working_dir' =
          [working_dir EXCEPT
              !.documents = WriteFile(@, Document(<<"metadata", ".", "json">>))]
    /\ dest' = [dest EXCEPT !.metadata = Index(updated_voices)]
    /\ pc' = "catalog"
    /\ UNCHANGED <<fatal, piper_present, all_files, discoveryVars, deltaVars,
                   loopVars, written_config, config_in, catalog, config_docs, run, etag_of>>

\* lines 108-120: metadata.json is written and uploaded
DumpMetadata ==
    /\ pc = "dump"
    /\ working_dir' =
          [working_dir EXCEPT
              !.documents = WriteFile(@, Document(<<"metadata", ".", "json">>))]
    /\ dest' = [dest EXCEPT !.metadata = Index(voices)]
    /\ pc' = "catalog"
    /\ UNCHANGED <<fatal, piper_present, all_files, discoveryVars, deltaVars,
                   loopVars, written_config, config_in, catalog, config_docs, run, etag_of>>

\* the upload of metadata.json raises
DumpMetadataFails ==
    /\ pc = "dump"
    /\ working_dir' =
          [working_dir EXCEPT
              !.documents = WriteFile(@, Document(<<"metadata", ".", "json">>))]
    /\ Abort("dump_voices_metadata")
    /\ UNCHANGED <<piper_present, all_files, discoveryVars, deltaVars, loopVars,
                   written_config, config_in, dest, catalog, config_docs, run, etag_of>>

\* lines 122-148: voices.json is built from the catalog, written and uploaded
DumpCatalog ==
    /\ pc = "catalog"
    /\ \E cat \in Catalogs :
          LET r == BuildRtVoices(cat, StdVoiceNames(voices), 1, <<>>)
          IN  /\ catalog' = cat
              /\ IF Raised(r)
                 THEN Abort("dump_voices_metadata") /\ UNCHANGED <<working_dir, dest>>
                 ELSE /\ working_dir' =
                            [working_dir EXCEPT
                                !.documents =
                                    WriteFile(@, Document(<<"voices", ".", "json">>))]
                      /\ dest' = [dest EXCEPT !.voices_json = Written(r.value)]
                      /\ pc' = "done"
                      /\ fatal' = fatal
    /\ UNCHANGED <<piper_present, all_files, discoveryVars, deltaVars, loopVars,
                   written_config, config_in, config_docs, run, etag_of>>

\* the fetch of the catalog or the upload of voices.json raises
DumpCatalogFails ==
    /\ pc = "catalog"
    /\ Abort("dump_voices_metadata")
    /\ UNCHANGED <<piper_present, all_files, discoveryVars, deltaVars, loopVars,
                   transformVars, dest, catalog, config_docs, run, etag_of>>

----------------------------------------------------------------------------
(* The pipeline: one run() *)

EmptyDest == [metadata |-> NoIndex, voices_json |-> NotWritten, archives |-> {}]

InitLocals ==
    /\ fatal = "none"
    /\ files = <<>>
    /\ cfg_i = 1
    /\ voices = <<>>
    /\ updated_voices = <<>>
    /\ vi = 1
    /\ response = NoResponse
    /\ calls = <<>>
    /\ working_dir = EmptyDir
    /\ attempted = <<>>
    /\ failed = {}
    /\ written_config = NotWritten
    /\ config_in = <<>>
    /\ catalog = <<>>
    /\ run = 1
    /\ etag_of = {}

Init ==
    /\ pc = "bootstrap"
    /\ piper_present \in BOOLEAN
    /\ all_files \in PipelineListings
    /\ dest \in {[EmptyDest EXCEPT !.metadata = m] : m \in PipelineIndexes}
    /\ config_docs = PipelineConfigDocs
    /\ InitLocals

Discovery ==
    \/ ListRepoFiles
    \/ ListRepoFilesFails
    \/ DiscoverSkip
    \/ DiscoverVoice
    \/ DiscoverFails
    \/ DiscoverDone

Transform ==
    \/ BeginVoice
    \/ Download
    \/ Export
    \/ RewriteConfig
    \/ RewriteConfigIndexError
    \/ BuildPackage
    \/ UploadPackage
    \/ Cleanup
    \/ StepRaises
    \/ EndLoop

Dump ==
    \/ DumpMetadata
    \/ DumpMetadataFails
    \/ DumpCatalog
    \/ DumpCatalogFails

Next ==
    \/ Bootstrap
    \/ BootstrapFails
    \/ Discovery
    \/ ResolveDelta
    \/ Transform
    \/ Dump

Spec == Init /\ [][Next]_vars

----------------------------------------------------------------------------
(* run() started a second time, after a run that ended at line 212, in the  *)
(* same current directory and against the same upstream and destination     *)

RunAgain ==
    /\ pc = "done"
    /\ run = 1
    /\ run' = run + 1
    /\ pc' = "bootstrap"
    /\ files' = <<>>
    /\ cfg_i' = 1
    /\ voices' = <<>>
    /\ updated_voices' = <<>>
    /\ vi' = 1
    /\ response' = NoResponse
    /\ calls' = <<>>
    /\ attempted' = <<>>
    /\ failed' = {}
    /\ written_config' = NotWritten
    /\ config_in' = <<>>
    /\ catalog' = <<>>
    /\ UNCHANGED <<fatal, piper_present, all_files, dest, working_dir, config_docs,
                   etag_of>>

NextTwoRuns ==
    \/ Next
    \/ RunAgain

SpecTwoRuns == Init /\ [][NextTwoRuns]_vars

----------------------------------------------------------------------------
(* Voice discovery on its own: any listing of at most MaxFiles paths *)

InitDiscovery ==
    /\ pc = "listing"
    /\ piper_present = TRUE
    /\ all_files \in SeqsNoDup(PathUniverse, MaxFiles)
    /\ dest = EmptyDest
    /\ config_docs = PipelineConfigDocs
    /\ InitLocals

SpecDiscovery == InitDiscovery /\ [][Discovery]_vars

----------------------------------------------------------------------------
(* get_updated_voices on its own: any discovered sequence, any published    *)
(* index, called twice                                                      *)

VoiceUniverse ==
    {Voice(<<"n1">>, <<"a">>, <<"b">>, <<"x">>),
     Voice(<<"n2">>, <<"a">>, <<"b">>, <<"x">>),
     Voice(<<"n1">>, <<"a">>, <<"b">>, <<"y">>),
     Voice(<<"n1">>, <<"a">>, <<"c">>, <<"y">>),
     Voice(<<"n1">>, <<"d">>, <<"b">>, <<"x">>)}

InitDelta ==
    /\ pc = "resolving"
    /\ piper_present = TRUE
    /\ all_files = <<>>
    /\ dest \in {[EmptyDest EXCEPT !.metadata = m] :
                    m \in {NoIndex} \cup
                          {Index(p) : p \in SeqsNoDup(VoiceUniverse, MaxPublished)}}
    /\ fatal = "none"
    /\ files = <<>>
    /\ cfg_i = 1
    /\ voices \in SeqsNoDup(VoiceUniverse, MaxDiscovered)
    /\ updated_voices = <<>>
    /\ vi = 1
    /\ response = NoResponse
    /\ calls = <<>>
    /\ working_dir = EmptyDir
    /\ attempted = <<>>
    /\ failed = {}
    /\ written_config = NotWritten
    /\ config_in = <<>>
    /\ catalog = <<>>
    /\ config_docs = PipelineConfigDocs
    /\ run = 1
    /\ etag_of = {<<voices[i].checkpoint, voices[i].etag>> : i \in 1..Len(voices)}

\* get_updated_voices(voices) is called, and called again
CallGetUpdatedVoices ==
    /\ pc = "resolving"
    /\ Len(calls) < 2
    /\ \E resp \in DestResponses(dest) : GetUpdatedVoicesCall(resp)
    /\ UNCHANGED <<pc, fatal, piper_present, all_files, files, cfg_i, updated_voices,
                   loopVars, transformVars, catalog, config_docs, run, etag_of>>

SpecDelta == InitDelta /\ [][CallGetUpdatedVoices]_vars

----------------------------------------------------------------------------
(* The config step of export_and_package on its own: any discovered voice,  *)
(* any upstream config document                                             *)

ConfigDirs == {DirAmy, DirBob, DirShort, DirDash, DirAmy2}

DiscoveredIn(dir, etag) ==
    Voice(VoiceName(PurePosixPath(InDir(dir, ConfigJson))), InDir(dir, ConfigJson),
          InDir(dir, Ckpt(<<"model">>)), etag)

InitConfig ==
    /\ pc = "config"
    /\ piper_present = TRUE
    /\ \E dir \in ConfigDirs, etag \in Etags :
          /\ all_files = <<InDir(dir, ConfigJson), InDir(dir, Ckpt(<<"model">>))>>
          /\ files = [i \in 1..2 |-> PurePosixPath(all_files[i])]
          /\ voices = <<DiscoveredIn(dir, etag)>>
          /\ etag_of = {<<InDir(dir, Ckpt(<<"model">>)), etag>>}
          /\ working_dir = [EmptyDir EXCEPT
                               !.exported_dir = TRUE,
                               !.checkpoint = InDir(dir, Ckpt(<<"model">>)),
                               !.exported = OnnxOutput(InDir(dir, ConfigJson))]
    /\ cfg_i = 2
    /\ updated_voices = voices
    /\ vi = 1
    /\ attempted = voices
    /\ failed = {}
    /\ response = [status |-> 401, body |-> NoBody]
    /\ calls = <<[response |-> response, result |-> Return(voices)]>>
    /\ dest = EmptyDest
    /\ fatal = "none"
    /\ written_config = NotWritten
    /\ config_in = <<>>
    /\ catalog = <<>>
    /\ config_docs = ConfigDocs
    /\ run = 1

ConfigStep ==
    \/ RewriteConfig
    \/ RewriteConfigIndexError
    \/ (pc = "config" /\ StepRaises)

SpecConfig == InitConfig /\ [][ConfigStep]_vars

----------------------------------------------------------------------------
(* What the claims say, in terms of the listed path strings themselves *)

Positions(str, tok) == {i \in 1..Len(str) : str[i] = tok}

Last(S) == IF S = {} THEN 0 ELSE CHOOSE i \in S : \A j \in S : j <= i
First(S) == IF S = {} THEN 0 ELSE CHOOSE i \in S : \A j \in S : i <= j

\* the directory and the file name of a listed path
DirOf(path) == SubSeq(path, 1, Last(Positions(path, "/")) - 1)
BaseOf(path) == SubSeq(path, Last(Positions(path, "/")) + 1, Len(path))

EndsInCkpt(base) ==
    Len(base) >= 3 /\ base[Len(base) - 1] = "." /\ base[Len(base)] = "ckpt"

HasConfigIn(d) ==
    \E i \in 1..Len(all_files) :
        DirOf(all_files[i]) = d /\ BaseOf(all_files[i]) = <<"config", ".", "json">>

HasCkptIn(d) ==
    \E i \in 1..Len(all_files) :
        DirOf(all_files[i]) = d /\ EndsInCkpt(BaseOf(all_files[i]))

ListedDirs == {DirOf(all_files[i]) : i \in 1..Len(all_files)}

Qualifying == {d \in ListedDirs : HasConfigIn(d) /\ HasCkptIn(d)}

VoicesIn(d) == {i \in 1..Len(voices) : DirOf(voices[i].config) = d}

\* C4: discovery yields exactly one Voice per directory that holds a config.json
\* and a .ckpt file, none for a directory with a config.json and no .ckpt file,
\* and the latter raises no error
C4_DiscoveryCount ==
    /\ \A i \in 1..Len(voices) : DirOf(voices[i].config) \in Qualifying
    /\ \A d \in ListedDirs : Cardinality(VoicesIn(d)) <= 1
    /\ pc = "resolving" =>
          /\ Len(voices) = Cardinality(Qualifying)
          /\ \A d \in Qualifying : Cardinality(VoicesIn(d)) = 1
    /\ fatal = "get_hf_file_metadata" => DirOf(FsPath(CfgFile)) \in Qualifying

C4_Witness ==
    /\ pc = "resolving"
    /\ Len(voices) = 1
    /\ \E d \in ListedDirs : HasConfigIn(d) /\ ~HasCkptIn(d)

\* the segments of a directory after the first, joined by "-"
DashedTail(d) ==
    LET k == First(Positions(d, "/"))
    IN  IF k = 0 THEN <<>>
        ELSE [j \in 1..(Len(d) - k) |-> IF d[k + j] = "/" THEN "-" ELSE d[k + j]]

\* C8: the name of every discovered Voice is the "-"-join of the segments of its
\* config's directory except the first
C8_NameDerivation ==
    \A i \in 1..Len(voices) : voices[i].name = DashedTail(DirOf(voices[i].config))

C8_Witness ==
    \E i \in 1..Len(voices) :
        /\ voices[i].config = InDir(DirAmy, ConfigJson)
        /\ voices[i].name = <<"en", "-", "amy", "-", "medium">>

\* C9: every discovered Voice has a non-empty name of exactly three
\* dash-separated components
C9_ThreeComponents ==
    \A i \in 1..Len(voices) :
        /\ voices[i].name # <<>>
        /\ Cardinality(Positions(voices[i].name, "-")) = 2

----------------------------------------------------------------------------

Published(call) == call.response.body.voices

\* a discovered voice that no published record matches in config, checkpoint and etag
IsNew(published, v) ==
    ~\E j \in 1..Len(published) :
        /\ published[j].config = v.config
        /\ published[j].checkpoint = v.checkpoint
        /\ published[j].etag = v.etag

NewPositions(published) == {i \in 1..Len(voices) : IsNew(published, voices[i])}

\* the k-th smallest element of a set of numbers
Kth(S, k) == CHOOSE i \in S : Cardinality({j \in S : j <= i}) = k

\* C2: with a Published Index returned, the result is the subsequence of the
\* discovered voices, in order, that no published record matches in config,
\* checkpoint and etag; the name is not compared
C2_DeltaIsNewSubsequence ==
    \A c \in 1..Len(calls) :
        (calls[c].response.status = 200 /\ calls[c].response.body.json) =>
            LET new == NewPositions(Published(calls[c]))
                r == calls[c].result
            IN  /\ r.kind = "return"
                /\ Len(r.value) = Cardinality(new)
                /\ \A k \in 1..Len(r.value) : r.value[k] = voices[Kth(new, k)]

C2_Witness ==
    \E c \in 1..Len(calls) :
        /\ calls[c].response.status = 200
        /\ Len(voices) = 2
        /\ Len(calls[c].result.value) = 1
        /\ \E j \in 1..Len(Published(calls[c])) :
              LET p == Published(calls[c])[j]
              IN  /\ SameTriple(p, voices[1]) /\ p.name # voices[1].name
                  /\ p.name = voices[2].name /\ p.etag # voices[2].etag
                  /\ calls[c].result.value[1] = voices[2]

\* C3: on HTTP 401 the result is every discovered voice, as for an empty published
\* list, and nothing is raised; any other status that is not a success is raised
C3_AbsentIndex ==
    \A c \in 1..Len(calls) :
        LET status == calls[c].response.status
            r == calls[c].result
        IN  /\ status = 401 =>
                  /\ r = Return(voices)
                  /\ r = GetUpdatedVoices(voices, [status |-> 200, body |-> Body(<<>>)])
            /\ (status # 401 /\ ~(200 <= status /\ status < 300)) => Raised(r)

C3_Witness ==
    \E c \in 1..Len(calls) :
        /\ calls[c].response.status = 401
        /\ Len(voices) = 2
        /\ calls[c].result = Return(voices)

C10_SameResult ==
    \A c, d \in 1..Len(calls) :
        calls[c].response = calls[d].response => calls[c].result = calls[d].result

\* C10: two calls of get_updated_voices with the same discovered sequence and the
\* same answer of the destination return the same result, and a call changes
\* neither the discovered sequence nor the destination
C10_DeltaPure ==
    /\ []C10_SameResult
    /\ [][Len(calls') > Len(calls) => (voices' = voices /\ dest' = dest)]_vars

C10_Witness ==
    /\ Len(calls) = 2
    /\ calls[1].response.status = 200
    /\ calls[1].response = calls[2].response
    /\ Len(voices) = 2
    /\ Len(calls[2].result.value) = 1

----------------------------------------------------------------------------

AfterLoop == pc \in {"dump", "catalog", "done"} \/ fatal = "dump_voices_metadata"

\* C1 (safety): whichever voices raise, every voice of the delta is passed to
\* export_and_package, in delta order, before dump_voices_metadata is called, and
\* "Process Done" is reached only then
C1_EveryVoiceAttempted ==
    /\ AfterLoop => attempted = updated_voices
    /\ pc = "loop" => attempted = SubSeq(updated_voices, 1, vi - 1)
    /\ pc \in TransformSteps => attempted = SubSeq(updated_voices, 1, vi)

\* C1: failure isolation; a run that has entered the export loop reaches
\* dump_voices_metadata, having passed every voice of the delta to
\* export_and_package in delta order
C1_FailureIsolation ==
    /\ []C1_EveryVoiceAttempted
    /\ (pc = "loop") ~> (pc = "dump")

C1_Witness ==
    /\ pc = "done"
    /\ Len(updated_voices) = 2
    /\ failed = {1}
    /\ \E a \in dest.archives : a.of = updated_voices[2].config

\* C5: no voice whose export_and_package failed in this run is in the
\* metadata.json the run uploads
C5_OnlyTransformedPublished ==
    pc \in {"catalog", "done"} =>
        \A i \in failed :
            \A j \in 1..Len(dest.metadata.voices) :
                dest.metadata.voices[j] # updated_voices[i]

\* C6: at the start of every per-voice iteration the working directory holds no
\* scratch checkpoint, no exported file and no archive
C6_WorkingDirCleared ==
    (pc = "loop" /\ vi <= Len(updated_voices)) =>
        /\ working_dir.checkpoint = <<>>
        /\ working_dir.exported = {}
        /\ working_dir.packages = {}

----------------------------------------------------------------------------

\* lang-base-quality gives lang-base+RT-quality
RtName(name) ==
    LET k == Last(Positions(name, "-"))
    IN  SubSeq(name, 1, k - 1) \o <<"+", "RT">> \o SubSeq(name, k, Len(name))

Missing(doc) == {k \in {"streaming", "key"} : ~HasKey(doc, k)}

\* C7: for a name of three parts the written config is the upstream document with
\* streaming = true and key = lang-base+RT-quality, every other field as it was
\* and the fields of the document in their places
C7_ConfigTransform ==
    (written_config.written /\ Cardinality(Positions(CurrentVoice.name, "-")) = 2) =>
        LET out == written_config.doc
        IN  /\ Len(out) = Len(config_in) + Cardinality(Missing(config_in))
            /\ \A i \in 1..Len(config_in) :
                  /\ out[i][1] = config_in[i][1]
                  /\ out[i][1] \notin {"streaming", "key"} => out[i][2] = config_in[i][2]
            /\ \A i \in 1..Len(out) :
                  /\ out[i][1] = "streaming" => out[i][2] = JTrue
                  /\ out[i][1] = "key" => out[i][2] = JStr(RtName(CurrentVoice.name))
                  /\ i > Len(config_in) => out[i][1] \in Missing(config_in)
            /\ \A i, j \in 1..Len(out) : i # j => out[i][1] # out[j][1]

C7_Witness ==
    /\ written_config.written
    /\ CurrentVoice.name = <<"en", "-", "amy", "-", "medium">>
    /\ config_in = <<<<"key", JStr(<<"en", "-", "amy", "-", "medium">>)>>,
                     <<"other", JNum("1")>>>>
    /\ written_config.doc =
          <<<<"key", JStr(<<"en", "-", "amy", "+", "RT", "-", "medium">>)>>,
            <<"other", JNum("1")>>, <<"streaming", JTrue>>>>

----------------------------------------------------------------------------

\* the phase of spec section 4.4 that a position of run() belongs to
Phase(p) ==
    CASE p = "bootstrap" -> 1
      [] p \in {"listing", "discovering"} -> 2
      [] p = "resolving" -> 3
      [] p \in {"loop"} \cup TransformSteps -> 4
      [] p \in {"dump", "catalog"} -> 5
      [] p = "done" -> 6
      [] OTHER -> 0

C11_DiscoveryBeforeDelta == pc = "resolving" => cfg_i > Len(ConfigFiles(files))

C11_DeltaBeforeTransform ==
    attempted # <<>> => (Len(calls) = 1 /\ ~Raised(calls[1].result))

\* C11: a run goes through Bootstrapping, Discovering, ResolvingDelta,
\* ProcessingVoices, PublishingMetadata, Done in that order and never back;
\* discovery is complete before delta resolution, delta resolution before the
\* first transform, and metadata.json is uploaded only after the last voice of
\* the delta was attempted
C11_PhaseOrder ==
    /\ [][pc' = "aborted" \/ Phase(pc') = Phase(pc) \/ Phase(pc') = Phase(pc) + 1]_vars
    /\ [][Phase(pc) >= 3 => voices' = voices]_vars
    /\ [][Phase(pc) >= 4 => updated_voices' = updated_voices]_vars
    /\ [][(pc = "dump" \/ dest'.metadata # dest.metadata) =>
             (attempted = updated_voices /\ vi > Len(updated_voices))]_vars
    /\ []C11_DiscoveryBeforeDelta
    /\ []C11_DeltaBeforeTransform

C11_Witness ==
    /\ pc = "done"
    /\ Len(attempted) = 2
    /\ dest.metadata = Index(voices)

EarlySites == {"bootstrap", "list_repo_files", "get_hf_file_metadata", "get_updated_voices"}

C12_NothingDone ==
    (fatal \in EarlySites \/ (Len(calls) > 0 /\ Raised(calls[1].result))) =>
        /\ pc = "aborted"
        /\ fatal \in EarlySites
        /\ attempted = <<>>
        /\ dest.archives = {}
        /\ ~dest.voices_json.written

\* C12: a fault raised during bootstrap, discovery or delta resolution ends the
\* run: no voice is transformed, no archive, metadata.json or voices.json is
\* uploaded
C12_FatalOutsideLoop ==
    /\ []C12_NothingDone
    /\ [][(Phase(pc) <= 3 \/ fatal \in EarlySites) => dest' = dest]_vars
    /\ [][(fatal \in EarlySites) => UNCHANGED pc]_vars

C12_Witness ==
    /\ fatal = "get_updated_voices"
    /\ response.status = 500
    /\ Len(voices) = 2
    /\ dest.metadata.present

HasFile(dir, name, owner) == \E f \in dir : f.name = name /\ f.of = owner

Downloaded == working_dir.checkpoint = CurrentVoice.checkpoint

Exported ==
    /\ HasFile(working_dir.exported, <<"encoder", ".", "onnx">>, CurrentVoice.config)
    /\ HasFile(working_dir.exported, <<"decoder", ".", "onnx">>, CurrentVoice.config)

ConfigWritten ==
    HasFile(working_dir.exported, RtName(CurrentVoice.name) \o <<".", "json">>,
            CurrentVoice.config)

Archived ==
    \E a \in working_dir.packages :
        /\ a.name = RtName(CurrentVoice.name) \o <<".", "tar", ".", "gz">>
        /\ a.of = CurrentVoice.config
        /\ a.members = working_dir.exported

Uploaded ==
    \E a \in dest.archives :
        /\ a.name = RtName(CurrentVoice.name) \o <<".", "tar", ".", "gz">>
        /\ a.of = CurrentVoice.config
        /\ a.members = working_dir.exported

C13_StepsDone ==
    /\ pc \in {"export", "config", "package", "upload", "cleanup"} => Downloaded
    /\ pc \in {"config", "package", "upload", "cleanup"} => Exported
    /\ pc \in {"package", "upload", "cleanup"} => ConfigWritten
    /\ pc \in {"upload", "cleanup"} => Archived
    /\ pc = "cleanup" => Uploaded

StepAfter(p) ==
    CASE p = "download" -> "export"
      [] p = "export" -> "config"
      [] p = "config" -> "package"
      [] p = "package" -> "upload"
      [] p = "upload" -> "cleanup"
      [] OTHER -> "loop"

\* C13: the steps of export_and_package run in the order download, export,
\* config, archive, upload, cleanup; a step that raises ends the call for that
\* voice only and the loop goes on with the next voice; an archive is uploaded
\* only after the download, export, config and archive steps of the same call
C13_StepOrder ==
    /\ []C13_StepsDone
    /\ [][(pc \in TransformSteps) =>
             \/ pc' = StepAfter(pc) /\ vi' = IF pc = "cleanup" THEN vi + 1 ELSE vi
             \/ pc' = "loop" /\ vi' = vi + 1 /\ failed' = failed \cup {vi}
                  /\ dest' = dest]_vars
    /\ [][dest'.archives # dest.archives =>
             (pc = "upload" /\ Downloaded /\ Exported /\ ConfigWritten /\ Archived)]_vars

C13_Witness ==
    /\ pc = "cleanup"
    /\ vi = 2
    /\ failed = {1}
    /\ Uploaded

\* the positions of the listing that hold a .ckpt file of directory d
CkptPositions(d) ==
    {i \in 1..Len(all_files) :
        DirOf(all_files[i]) = d /\ EndsInCkpt(BaseOf(all_files[i]))}

\* C14: the checkpoint of a discovered Voice is the first path of the listing
\* that lies in the directory of its config.json and ends in .ckpt; a directory
\* with several checkpoint files yields one Voice
C14_FirstCheckpoint ==
    /\ \A i \in 1..Len(voices) :
          LET d == DirOf(voices[i].config)
          IN  /\ CkptPositions(d) # {}
              /\ voices[i].checkpoint = all_files[First(CkptPositions(d))]
              /\ DirOf(voices[i].checkpoint) = d
              /\ EndsInCkpt(BaseOf(voices[i].checkpoint))
    /\ \A d \in ListedDirs : Cardinality(VoicesIn(d)) <= 1

C14_Witness ==
    /\ pc = "resolving"
    /\ Len(voices) = 1
    /\ Cardinality(CkptPositions(DirOf(voices[1].config))) = 2
    /\ BaseOf(voices[1].checkpoint) = <<"last", ".", "ckpt">>

\* the records of the previous index that this run did not discover
Dropped ==
    {i \in 1..Len(response.body.voices) :
        \A j \in 1..Len(voices) : voices[j].config # response.body.voices[i].config}

\* C15: the metadata.json a run uploads is the sequence of all voices the run
\* discovered, whatever the delta and whatever the previous index held
C15_IndexIsDiscovered ==
    /\ pc \in {"catalog", "done"} => dest.metadata = Index(voices)
    /\ (pc = "aborted" /\ fatal = "dump_voices_metadata" /\ catalog # <<>>) =>
          dest.metadata = Index(voices)

C15_Witness ==
    /\ pc = "done"
    /\ response.status = 200
    /\ Dropped # {}
    /\ Len(voices) = 1
    /\ dest.metadata.voices = voices

\* the entries of the catalog whose key is the name of a voice of the index
Matching ==
    {i \in 1..Len(catalog) : \E j \in 1..Len(voices) : voices[j].name = catalog[i][1]}

RtEntry(out, i) ==
    LET vname == catalog[i][1]
        vdata == catalog[i][2]
        hits == {k \in 1..Len(out) : out[k][1] = RtName(vname)}
    IN  /\ Cardinality(hits) = 1
        /\ \A k \in hits :
              /\ GetKey(out[k][2], "base") = GetKey(vdata, "key")
              /\ GetKey(out[k][2], "key") = JStr(RtName(vname))
              /\ GetKey(out[k][2], "streaming") = JTrue
              /\ GetKey(out[k][2], "files") =
                    JList1(RtName(vname) \o <<".", "tar", ".", "gz">>)

\* C16: the voices.json a run uploads has one entry per catalog key that is the
\* name of a voice of the index and no other entry; the entry is stored under
\* lang-base+RT-quality, with base = the key field the catalog entry had, key =
\* the derived name, streaming = true and files = [derived-name.tar.gz]
C16_DerivedCatalog ==
    pc = "done" =>
        LET out == dest.voices_json.doc
        IN  /\ dest.voices_json.written
            /\ Len(out) = Cardinality(Matching)
            /\ \A i \in Matching : RtEntry(out, i)
            /\ \A k \in 1..Len(out) :
                  \E i \in Matching : out[k][1] = RtName(catalog[i][1])

C16_Witness ==
    /\ pc = "done"
    /\ Len(catalog) = 2
    /\ Len(voices) = 2
    /\ Cardinality(Matching) = 1
    /\ Len(dest.voices_json.doc) = 1

C16_KeyFieldWitness ==
    /\ pc = "done"
    /\ Len(dest.voices_json.doc) = 1
    /\ GetKey(dest.voices_json.doc[1][2], "base") = JStr(<<"amy">>)

\* C17: every member of an uploaded archive was produced for the voice the
\* archive belongs to, in the call that uploaded it
C17_ArchivePurity ==
    \A a \in dest.archives : \A f \in a.members : f.of = a.of

\* C19: the upload of a voice's archive never replaces the archive another
\* voice of the run was uploaded under
C19_NoOverwrite ==
    [][(pc = "upload" /\ pc' = "cleanup") =>
          \A a \in dest.archives :
              a.name = RtName(CurrentVoice.name) \o <<".", "tar", ".", "gz">> =>
                  a.of = CurrentVoice.config]_vars

C18_EmptyDelta ==
    (run = 2 /\ Phase(pc) >= 4 /\ response.status = 200) =>
        /\ Index(voices) = dest.metadata
        /\ updated_voices = <<>>
        /\ attempted = <<>>

\* C18: a run started after a run that reached the end, against the same
\* listing and etags and answered by the destination with the index that run
\* uploaded, finds no voice to update, calls export_and_package for none and
\* uploads the metadata.json that was there
C18_Fixpoint ==
    /\ []C18_EmptyDelta
    /\ [][(run = 2 /\ pc = "dump" /\ response.status = 200) =>
             (pc' = "aborted" \/ (pc' = "catalog" /\ dest'.metadata = dest.metadata))]_vars

C18_Witness ==
    /\ run = 2
    /\ pc = "done"
    /\ response.status = 200
    /\ Len(voices) = 2
    /\ dest.archives = {}
    /\ updated_voices = <<>>

FairSpec == Spec /\ WF_vars(Next)

====
